---- MODULE Spec2Model ----
(***************************************************************************)
(* Model of CCDB/read_encoded_flags.C: one invocation of                   *)
(* read_encoded_flags(run, passName, periodName, versionNumber, ccdbPath). *)
(* The CCDB manager and gSystem are external collaborators; their answers  *)
(* (return values, exceptions) are nondeterministic choices of the         *)
(* environment.  Text is modelled as sequences of one-character strings so *)
(* that formatting (std::to_string, operator<<, std::bitset<32>) is        *)
(* computed and can be parsed back.                                        *)
(***************************************************************************)
EXTENDS Integers, Sequences, FiniteSets, TLC

VARIABLES run, passName, periodName, versionNumber, ccdbPath,
          pc, loadRc, soreor, ts, metadata, encodedFlags, remaining,
          exc, calls, cout, cerr

vars == <<run, passName, periodName, versionNumber, ccdbPath,
          pc, loadRc, soreor, ts, metadata, encodedFlags, remaining,
          exc, calls, cout, cerr>>

(***************************************************************************)
(* Bounds and sample inputs                                                *)
(***************************************************************************)
\* Width in bits of the timestamp type used for the addition on line 21
\* (uint64_t in the program, scaled down here).
TsBits == 3

TsMod == 2 ^ TsBits

Timestamps == 0 .. (TsMod - 1)

Runs == {-3, 0, 42}

PassNames == { <<"a","p","a","s","s","1">>, <<"a","p","a","s","s","4">> }

PeriodNames == { <<"L","H","C","2","2","o">> }

Versions == {0, 12}

DefaultPath == "Users/j/jian/RCT"

Paths == {DefaultPath, "Users/x/test"}

\* Return codes of gSystem->Load: 0 loaded, 1 already loaded, <0 failure.
LoadCodes == {-2, -1, 0, 1}

\* what() of the std::exception objects the store may throw.
Messages == { <<"t","i","m","e","o","u","t">>, <<"b","a","d">> }

\* Keys of the retrieved std::map<uint64_t, uint32_t>.
MapKeys == {7, 120}

\* uint32_t bitmasks as <<hi, lo>> 16-bit halves: 5, 0xFFFFFFFF, 0x80000001.
Masks == { <<0, 5>>, <<65535, 65535>>, <<32768, 1>> }

(***************************************************************************)
(* Formatting                                                              *)
(***************************************************************************)
DigitChars == <<"0","1","2","3","4","5","6","7","8","9">>

RECURSIVE DecU(_)
\* Decimal digits of a non-negative integer, most significant first.
DecU(n) == IF n < 10 THEN <<DigitChars[n + 1]>>
           ELSE DecU(n \div 10) \o <<DigitChars[(n % 10) + 1]>>

\* std::to_string(int) and operator<<(int): sign, then decimal digits.
IntToString(n) == IF n < 0 THEN <<"-">> \o DecU(-n) ELSE DecU(n)

\* 2^16: a uint32_t is hi * Half + lo.
Half == 65536

\* Four decimal digits, zero padded (inner group of a longer number).
Pad4(n) == <<DigitChars[(n \div 1000) + 1], DigitChars[((n \div 100) % 10) + 1],
             DigitChars[((n \div 10) % 10) + 1], DigitChars[(n % 10) + 1]>>

\* operator<<(uint32_t): unsigned decimal of hi*65536 + lo, computed in
\* groups of four digits (65536 = 6 * 10^4 + 5536).
DecU32(m) ==
    LET t0 == m[1] * 5536 + m[2]
        g0 == t0 % 10000
        t1 == m[1] * 6 + (t0 \div 10000)
        g1 == t1 % 10000
        g2 == t1 \div 10000
    IN  IF g2 > 0 THEN DecU(g2) \o Pad4(g1) \o Pad4(g0)
        ELSE IF g1 > 0 THEN DecU(g1) \o Pad4(g0)
        ELSE DecU(g0)

\* Bit k (0 = least significant) of a uint32_t.
BitOf(m, k) == IF k < 16 THEN (m[2] \div (2 ^ k)) % 2
               ELSE (m[1] \div (2 ^ (k - 16))) % 2

\* Width of the std::bitset on line 44.
BitsetWidth == 32

\* operator<<(std::bitset<32>): one character per bit, highest bit first.
BitsetToString(m) ==
    [i \in 1 .. BitsetWidth |-> IF BitOf(m, BitsetWidth - i) = 1 THEN "1" ELSE "0"]

\* A printed line: the literal text with numbered holes, and the formatted
\* values inserted into the holes.
Line(fmt, args) == [fmt |-> fmt, args |-> args]

LoadErrorLine == Line("Error: Failed to load dict_ccdb.so\n", <<>>)

NullErrorLine(r) ==
    Line("Error: Unable to retrieve encoded flags for run %1 from CCDB.\n",
         <<IntToString(r)>>)

HeaderLine(r) == Line("Encoded Flags for Run %1:\n", <<IntToString(r)>>)

FlagLine(t, m) ==
    Line("  Timestamp: %1, Bitmask: %2 (%3)\n",
         <<DecU(t), BitsetToString(m), DecU32(m)>>)

\* Variant of ExceptionLine that drops ex.what() from the line.
ExceptionLineNoMessage(what) ==
    Line("Error: Exception occurred while retrieving CCDB object\n", <<>>)

ExceptionLine(what) ==
    Line("Error: Exception occurred while retrieving CCDB object: %1\n", <<what>>)

(***************************************************************************)
(* State                                                                   *)
(***************************************************************************)
Init ==
    /\ run \in Runs
    /\ passName \in PassNames
    /\ periodName \in PeriodNames
    /\ versionNumber \in Versions
    /\ ccdbPath \in Paths
    /\ pc = "load"
    /\ loadRc = <<>>
    /\ soreor = <<>>
    /\ ts = <<>>
    /\ metadata = <<>>
    /\ encodedFlags = <<>>
    /\ remaining = {}
    /\ exc = <<>>
    /\ calls = <<>>
    /\ cout = <<>>
    /\ cerr = <<>>

inputs == <<run, passName, periodName, versionNumber, ccdbPath>>

Terminated == pc \in {"ret_load", "ret_null", "ret_end", "ret_catch", "unwound"}

(***************************************************************************)
(* Helpers modelling single expressions of the routine                     *)
(***************************************************************************)
\* Variant of LoadFailed that treats only a version mismatch (-2) as failure.
LoadFailedOnlyMismatch(rc) == rc < -1

\* Line 11: the test on the result of gSystem->Load.
LoadFailed(rc) == rc < 0

\* Line 21: (soreor.first + soreor.second) / 2 in the timestamp type.
Midpoint(se) == ((se[1] + se[2]) % TsMod) \div 2

\* A default-constructed std::map<std::string, std::string>.
EmptyMetadata == [k \in {} |-> <<>>]

\* std::map::operator[] followed by assignment.
Put(m, k, v) == [x \in (DOMAIN m) \cup {k} |-> IF x = k THEN v ELSE m[x]]

\* Variant of MakeMetadata that stores the version under the key "run".
MakeMetadataOverwrite(r, pass, period, v) ==
    LET m0 == EmptyMetadata
        m1 == Put(m0, "run", IntToString(r))
        m2 == Put(m1, "passName", pass)
        m3 == Put(m2, "periodName", period)
    IN  Put(m3, "run", IntToString(v))

\* Lines 24-28.
MakeMetadata(r, pass, period, v) ==
    LET m0 == EmptyMetadata
        m1 == Put(m0, "run", IntToString(r))
        m2 == Put(m1, "passName", pass)
        m3 == Put(m2, "periodName", period)
    IN  Put(m3, "version", IntToString(v))

\* The objects getSpecific can hand back: a null pointer or a pointer to a
\* std::map<uint64_t, uint32_t>.
FlagMaps == UNION { [K -> Masks] : K \in SUBSET MapKeys }

NullResult == [isNull |-> TRUE, obj |-> [k \in {} |-> <<0, 0>>]]

Results == {NullResult} \cup { [isNull |-> FALSE, obj |-> f] : f \in FlagMaps }

\* Variant of NextKey that visits the largest key first.
NextKeyLargest(keys) == CHOOSE k \in keys : \A j \in keys : k >= j

\* Line 42: the range-for over a std::map visits the smallest key first.
NextKey(keys) == CHOOSE k \in keys : \A j \in keys : k <= j

(***************************************************************************)
(* Steps of read_encoded_flags                                             *)
(***************************************************************************)
\* Lines 11-14.
Load ==
    /\ pc = "load"
    /\ \E rc \in LoadCodes :
         /\ loadRc' = <<rc>>
         /\ IF LoadFailed(rc)
              THEN /\ cerr' = Append(cerr, LoadErrorLine)
                   /\ pc' = "ret_load"
              ELSE /\ cerr' = cerr
                   /\ pc' = "duration"
    /\ UNCHANGED <<inputs, soreor, ts, metadata, encodedFlags, remaining,
                   exc, calls, cout>>

\* Lines 17-20, the store answers with the run's window.
GetRunDurationReturn ==
    /\ pc = "duration"
    /\ calls' = Append(calls, [op |-> "getRunDuration", run |-> run])
    /\ \E S \in Timestamps, E \in Timestamps : soreor' = <<S, E>>
    /\ pc' = "midpoint"
    /\ UNCHANGED <<inputs, loadRc, ts, metadata, encodedFlags, remaining,
                   exc, cout, cerr>>

\* Lines 17-20, the store throws; line 20 is outside the try block, so the
\* exception leaves the function.
GetRunDurationRaise ==
    /\ pc = "duration"
    /\ calls' = Append(calls, [op |-> "getRunDuration", run |-> run])
    /\ \E what \in Messages :
         exc' = <<[site |-> "getRunDuration", what |-> what]>>
    /\ pc' = "unwound"
    /\ UNCHANGED <<inputs, loadRc, soreor, ts, metadata, encodedFlags,
                   remaining, cout, cerr>>

\* Line 21.
ComputeMidpoint ==
    /\ pc = "midpoint"
    /\ ts' = <<Midpoint(soreor)>>
    /\ pc' = "metadata"
    /\ UNCHANGED <<inputs, loadRc, soreor, metadata, encodedFlags, remaining,
                   exc, calls, cout, cerr>>

\* Lines 24-28.
BuildMetadata ==
    /\ pc = "metadata"
    /\ metadata' = MakeMetadata(run, passName, periodName, versionNumber)
    /\ pc' = "lookup"
    /\ UNCHANGED <<inputs, loadRc, soreor, ts, encodedFlags, remaining,
                   exc, calls, cout, cerr>>

\* The arguments of the call on line 32.
LookupCall ==
    [op |-> "getSpecific", path |-> ccdbPath, ts |-> ts[1], metadata |-> metadata]

\* Line 32, the store answers (possibly with a null pointer).
GetSpecificReturn ==
    /\ pc = "lookup"
    /\ calls' = Append(calls, LookupCall)
    /\ \E r \in Results : encodedFlags' = <<r>>
    /\ pc' = "check"
    /\ UNCHANGED <<inputs, loadRc, soreor, ts, metadata, remaining,
                   exc, cout, cerr>>

\* Line 32, the store throws inside the try block.
GetSpecificRaise ==
    /\ pc = "lookup"
    /\ calls' = Append(calls, LookupCall)
    /\ \E what \in Messages :
         exc' = <<[site |-> "getSpecific", what |-> what]>>
    /\ pc' = "catch"
    /\ UNCHANGED <<inputs, loadRc, soreor, ts, metadata, encodedFlags,
                   remaining, cout, cerr>>

\* Variant of CheckNull without the return on line 37.
CheckNullNoReturn ==
    /\ pc = "check"
    /\ IF encodedFlags[1].isNull
         THEN cerr' = Append(cerr, NullErrorLine(run))
         ELSE cerr' = cerr
    /\ pc' = "header"
    /\ UNCHANGED <<inputs, loadRc, soreor, ts, metadata, encodedFlags,
                   remaining, exc, calls, cout>>

\* Lines 35-38.
CheckNull ==
    /\ pc = "check"
    /\ IF encodedFlags[1].isNull
         THEN /\ cerr' = Append(cerr, NullErrorLine(run))
              /\ pc' = "ret_null"
         ELSE /\ cerr' = cerr
              /\ pc' = "header"
    /\ UNCHANGED <<inputs, loadRc, soreor, ts, metadata, encodedFlags,
                   remaining, exc, calls, cout>>

\* Line 41, and the start of the loop on line 42.
PrintHeader ==
    /\ pc = "header"
    /\ cout' = Append(cout, HeaderLine(run))
    /\ remaining' = DOMAIN encodedFlags[1].obj
    /\ pc' = "loop"
    /\ UNCHANGED <<inputs, loadRc, soreor, ts, metadata, encodedFlags,
                   exc, calls, cerr>>

\* Lines 42-45, one iteration.
PrintEntry ==
    /\ pc = "loop"
    /\ remaining # {}
    /\ LET t == NextKey(remaining)
       IN  /\ cout' = Append(cout, FlagLine(t, encodedFlags[1].obj[t]))
           /\ remaining' = remaining \ {t}
    /\ UNCHANGED <<inputs, pc, loadRc, soreor, ts, metadata, encodedFlags,
                   exc, calls, cerr>>

\* Line 42 at the end of the map, then the end of the function.
LoopEnd ==
    /\ pc = "loop"
    /\ remaining = {}
    /\ pc' = "ret_end"
    /\ UNCHANGED <<inputs, loadRc, soreor, ts, metadata, encodedFlags,
                   remaining, exc, calls, cout, cerr>>

\* Variant of Catch that logs and then retries the lookup.
CatchRetry ==
    /\ pc = "catch"
    /\ cerr' = Append(cerr, ExceptionLine(exc[1].what))
    /\ pc' = "lookup"
    /\ UNCHANGED <<inputs, loadRc, soreor, ts, metadata, encodedFlags,
                   remaining, exc, calls, cout>>

\* Lines 46-48.
Catch ==
    /\ pc = "catch"
    /\ cerr' = Append(cerr, ExceptionLine(exc[1].what))
    /\ pc' = "ret_catch"
    /\ UNCHANGED <<inputs, loadRc, soreor, ts, metadata, encodedFlags,
                   remaining, exc, calls, cout>>

Next ==
    \/ Load
    \/ GetRunDurationReturn
    \/ GetRunDurationRaise
    \/ ComputeMidpoint
    \/ BuildMetadata
    \/ GetSpecificReturn
    \/ GetSpecificRaise
    \/ CheckNull
    \/ PrintHeader
    \/ PrintEntry
    \/ LoopEnd
    \/ Catch

Spec == Init /\ [][Next]_vars

(***************************************************************************)
(* Reading printed text back                                               *)
(***************************************************************************)
IsDigit(c) == \E d \in 0 .. 9 : DigitChars[d + 1] = c

DigitVal(c) == CHOOSE d \in 0 .. 9 : DigitChars[d + 1] = c

\* A digit string without sign and without a leading zero (except "0").
CanonicalDigits(s) ==
    /\ Len(s) >= 1
    /\ \A i \in 1 .. Len(s) : IsDigit(s[i])
    /\ (Len(s) > 1 => s[1] # "0")

RECURSIVE ParseU(_)
ParseU(s) == IF s = <<>> THEN 0
             ELSE 10 * ParseU(SubSeq(s, 1, Len(s) - 1)) + DigitVal(s[Len(s)])

\* s is the decimal form of the integer n.
IsDecimalOf(s, n) ==
    IF n < 0
      THEN /\ Len(s) >= 2
           /\ s[1] = "-"
           /\ CanonicalDigits(Tail(s))
           /\ ParseU(Tail(s)) = -n
      ELSE /\ CanonicalDigits(s)
           /\ ParseU(s) = n

RECURSIVE ParseU32(_)
\* The value of a digit string as <<hi, lo>> 16-bit halves.
ParseU32(s) ==
    IF s = <<>> THEN <<0, 0>>
    ELSE LET p  == ParseU32(SubSeq(s, 1, Len(s) - 1))
             lo == p[2] * 10 + DigitVal(s[Len(s)])
         IN  <<p[1] * 10 + (lo \div Half), lo % Half>>

RECURSIVE BinValue(_)
\* The value of a string of '0'/'1', first character most significant.
BinValue(b) ==
    IF b = <<>> THEN 0
    ELSE 2 * BinValue(SubSeq(b, 1, Len(b) - 1)) + (IF b[Len(b)] = "1" THEN 1 ELSE 0)

\* s is the 32-character unsigned binary form of the bitmask m.
IsBinary32Of(s, m) ==
    /\ Len(s) = 32
    /\ \A i \in 1 .. Len(s) : s[i] \in {"0", "1"}
    /\ BinValue(SubSeq(s, 1, 16)) = m[1]
    /\ BinValue(SubSeq(s, 17, 32)) = m[2]

LookupCalls == { i \in DOMAIN calls : calls[i].op = "getSpecific" }

LookupRaised == exc # <<>> /\ exc[1].site = "getSpecific"

FlagFormat == "  Timestamp: %1, Bitmask: %2 (%3)\n"

FlagLines == SelectSeq(cout, LAMBDA l : l.fmt = FlagFormat)

(***************************************************************************)
(* Properties                                                              *)
(***************************************************************************)
\* C1: whichever failure occurs (module load, null result, an exception of
\* getRunDuration or of getSpecific), the call returns normally; no
\* exception ever leaves read_encoded_flags.
C1_NoExceptionEscapes == pc # "unwound"

\* C2: if getSpecific raises, exactly one error line is produced, it
\* contains the exception's message, and nothing else is printed (no flag
\* lines, no header).
C2_LookupExceptionLogged ==
    LookupRaised =>
      /\ cout = <<>>
      /\ pc \in {"catch", "ret_catch"}
      /\ (pc = "catch" => cerr = <<>>)
      /\ (pc = "ret_catch" =>
            /\ Len(cerr) = 1
            /\ \E i \in DOMAIN cerr[1].args : cerr[1].args[i] = exc[1].what)

C2_Witness ==
    /\ pc = "ret_catch"
    /\ LookupRaised
    /\ exc[1].what = <<"t","i","m","e","o","u","t">>
    /\ Len(cerr) = 1

\* C3: if getSpecific returns a null object, exactly one error line is
\* produced, it mentions the run number given as input, no flag lines are
\* printed and the call returns.
C3_NullResultReported ==
    (encodedFlags # <<>> /\ encodedFlags[1].isNull) =>
      /\ cout = <<>>
      /\ pc \in {"check", "ret_null"}
      /\ (pc = "check" => cerr = <<>>)
      /\ (pc = "ret_null" =>
            /\ Len(cerr) = 1
            /\ \E i \in DOMAIN cerr[1].args : IsDecimalOf(cerr[1].args[i], run))

C3_Witness ==
    /\ pc = "ret_null"
    /\ encodedFlags[1].isNull
    /\ run = -3
    /\ cerr[1].args = << <<"-", "3">> >>

\* C4: if loading the module fails, exactly one error line is produced and
\* the call returns with no store call made; and no store call is ever made
\* unless the load was attempted and succeeded.
C4_LoadFailureShortCircuits ==
    /\ (loadRc # <<>> /\ loadRc[1] < 0) =>
          /\ pc = "ret_load"
          /\ Len(cerr) = 1
          /\ cout = <<>>
          /\ calls = <<>>
    /\ (calls # <<>> \/ pc \notin {"load", "ret_load"}) =>
          (loadRc # <<>> /\ loadRc[1] >= 0)

C4_Witness ==
    /\ pc = "ret_load"
    /\ loadRc = <<-1>>
    /\ Len(cerr) = 1
    /\ calls = <<>>

\* C5: the timestamp passed to the lookup equals floor((S+E)/2) of the
\* window (S, E) returned by getRunDuration, with S+E the true sum.
C5_MidpointExact ==
    \A i \in LookupCalls : calls[i].ts = (soreor[1] + soreor[2]) \div 2

\* C6: the metadata filter passed to the lookup has exactly the keys "run",
\* "passName", "periodName", "version"; "run" and "version" hold the decimal
\* forms of run and versionNumber, the two names are the inputs unchanged.
C6_MetadataFilter ==
    \A i \in LookupCalls :
      LET m == calls[i].metadata
      IN  /\ DOMAIN m = {"run", "passName", "periodName", "version"}
          /\ IsDecimalOf(m["run"], run)
          /\ IsDecimalOf(m["version"], versionNumber)
          /\ m["passName"] = passName
          /\ m["periodName"] = periodName

C6_Witness ==
    /\ LookupCalls # {}
    /\ run = 42
    /\ versionNumber = 12
    /\ calls[2].metadata["run"] = <<"4", "2">>
    /\ calls[2].metadata["version"] = <<"1", "2">>

\* C7: on success one flag line is printed per entry of the returned
\* mapping, in ascending timestamp order; each line holds the timestamp in
\* decimal, the bitmask as its 32-character unsigned binary form (highest
\* bit first) and the bitmask in decimal; the number of flag lines is the
\* number of entries.
C7_FlagLines ==
    pc = "ret_end" =>
      LET obj == encodedFlags[1].obj
          fl  == FlagLines
          key(i) == ParseU(fl[i].args[1])
      IN  /\ Len(fl) = Cardinality(DOMAIN obj)
          /\ \A i \in 1 .. Len(fl) :
               /\ CanonicalDigits(fl[i].args[1])
               /\ key(i) \in DOMAIN obj
               /\ IsBinary32Of(fl[i].args[2], obj[key(i)])
               /\ CanonicalDigits(fl[i].args[3])
               /\ ParseU32(fl[i].args[3]) = obj[key(i)]
          /\ \A i, j \in 1 .. Len(fl) : i < j => key(i) < key(j)

C7_Witness ==
    /\ pc = "ret_end"
    /\ DOMAIN encodedFlags[1].obj = {7, 120}
    /\ encodedFlags[1].obj[7] = <<32768, 1>>
    /\ encodedFlags[1].obj[120] = <<0, 5>>
    /\ Len(cout) = 3
    /\ cout[2].args[3] = <<"2","1","4","7","4","8","3","6","4","9">>
    /\ cout[3].args[2] = [i \in 1 .. 32 |-> IF i \in {30, 32} THEN "1" ELSE "0"]

\* C8: every invocation writes to exactly one stream: on success only to
\* standard output; on a failure (module load, null result, store
\* exception) one error line to standard error and nothing to standard
\* output.
C8_ExactlyOneStream ==
    Terminated =>
      /\ (cout = <<>>) # (cerr = <<>>)
      /\ (pc = "ret_end" => cerr = <<>>)
      /\ (pc # "ret_end" => (cout = <<>> /\ Len(cerr) = 1))

\* C9: the interactions with the store are a prefix of
\* [getRunDuration(run), getSpecific(ccdbPath, ts, metadata)]: the window is
\* resolved before the lookup, the lookup is issued at most once, and only
\* read operations are issued.
C9_StoreInteractions ==
    /\ Len(calls) <= 2
    /\ \A i \in DOMAIN calls : calls[i].op \in {"getRunDuration", "getSpecific"}
    /\ (Len(calls) >= 1 => calls[1] = [op |-> "getRunDuration", run |-> run])
    /\ (Len(calls) = 2 =>
          /\ calls[2].op = "getSpecific"
          /\ calls[2].path = ccdbPath
          /\ calls[2].ts = ts[1]
          /\ calls[2].metadata = metadata)

C9_Witness ==
    /\ pc = "ret_null"
    /\ Len(calls) = 2
    /\ calls[1].op = "getRunDuration"
    /\ calls[2].op = "getSpecific"

\* C10: for a window (S, E) with S <= E the timestamp used for the lookup
\* lies inside the run: S <= ts <= E.
C10_MidpointInsideRun ==
    \A i \in LookupCalls :
      soreor[1] <= soreor[2] =>
        (soreor[1] <= calls[i].ts /\ calls[i].ts <= soreor[2])

====
